---- MODULE Spec2Model ----
(***************************************************************************)
(* Gyro/video synchronisation orchestrator of gyroflow:                    *)
(*   src/core/synchronization/find_offset/rs_sync.rs                       *)
(* find_offsets, FindOffsetsRssync::{new, full_sync, guess_orient,         *)
(* collect_points} and set_quats, as a state machine.                      *)
(*                                                                         *)
(* Numbers.  Timestamps are integers (microseconds).  A float that is not  *)
(* an integer is kept as an exact fraction <<numerator, denominator>> with *)
(* a positive denominator; fractions are compared by cross-multiplication. *)
(* Offsets and costs returned by the optimizer are drawn from small sets   *)
(* of integers (milliseconds, cost units).                                 *)
(***************************************************************************)
EXTENDS Integers, Sequences, FiniteSets, TLC

\* ------------------------------------------------------------------ bounds
\* number of frames in the frame-result store (timestamps 1..MaxFrames)
MaxFrames == 2
\* longest list of ranges handed to find_offsets / new
MaxRanges == 2
\* number of full_sync / guess_orient calls made on one orchestrator
MaxCalls == 2

\* ------------------------------------------------------- program constants
\* `48.0` in the on_progress closure
NumOrientations == 48
\* `presync_step = 3.0` of full_sync, in milliseconds
PresyncStep == 3
\* the `3.0` that guess_orient passes to pre_sync, in milliseconds
GuessStep == 3
\* the number of refinement passes full_sync asks of the optimizer
RefineDepth == 4

\* ------------------------------------------------------------- fractions
RECURSIVE Gcd(_, _)
Gcd(a, b) == IF b = 0 THEN a ELSE Gcd(b, a % b)
Abs(x) == IF x < 0 THEN -x ELSE x
\* n/d in lowest terms, d > 0
Frac(n, d) == LET g == Gcd(Abs(n), d) IN <<n \div g, d \div g>>
FracLe(a, b) == a[1] * b[2] <= b[1] * a[2]
FracLt(a, b) == a[1] * b[2] < b[1] * a[2]
FracDivInt(a, n) == Frac(a[1], a[2] * n)
FracMulInt(a, n) == Frac(a[1] * n, a[2])
FracNeg(a) == <<-a[1], a[2]>>
FracSub(a, b) == Frac(a[1] * b[2] - b[1] * a[2], a[2] * b[2])
FracAbs(a) == <<Abs(a[1]), a[2]>>

\* Option: None is the empty tuple, Some(x) the tuple <<x>>
None == <<>>
Some(x) == <<x>>

\* --------------------------------------------------- frame-result store
\* BTreeMap<i64, FrameResult>: one FrameResult per frame timestamp.  A frame
\* holds either no usable optical flow under the method key (the borrow
\* fails, the key is absent, or its value is None) or the tracked pair
\* ((a_t, a_p), (b_t, b_p)) with the next frame; of the point lists only
\* their lengths a_n, b_n are kept.
FrameTs == 1..MaxFrames
NoFlow == [optical_flow |-> None]
FlowKinds == {"none", "equal", "mismatch"}
MkStore(kind) ==
    [t \in FrameTs |->
        IF kind[t] = "none" THEN NoFlow
        ELSE [optical_flow |->
                 Some([a_t |-> t, a_n |-> 1, b_t |-> t + 1,
                       b_n |-> IF kind[t] = "equal" THEN 1 ELSE 2])]]
Stores == {MkStore(kind) : kind \in [FrameTs -> FlowKinds]}
\* a recording twice as long, with flow of equal lengths in every frame
LongStore ==
    [t \in 1..(2 * MaxFrames) |->
        [optical_flow |-> Some([a_t |-> t, a_n |-> 1, b_t |-> t + 1, b_n |-> 1])]]

\* the ranges a caller passes, as (from_ts, to_ts): from any frame to the end
\* of the recording, or the degenerate (1, 1)
RangeSet == {<<f, MaxFrames + 1>> : f \in FrameTs} \cup {<<1, 1>>}
RECURSIVE SeqsUpTo(_, _)
SeqsUpTo(S, n) ==
    IF n = 0 THEN {<<>>}
    ELSE LET shorter == SeqsUpTo(S, n - 1)
         IN  shorter \cup {Append(s, x) : s \in {q \in shorter : Len(q) = n - 1}, x \in S}
RangeSeqs == SeqsUpTo(RangeSet, MaxRanges)

\* SyncParams: initial_offset and search_size in milliseconds
SyncParamsSet == {[initial_offset |-> 2, search_size |-> 10]}
\* ComputeParams: frame_readout_time in ms, scaled_fps, lens.global_shutter
ComputeParamsSet ==
    {[frame_readout_time |-> f, scaled_fps |-> 25, lens_global_shutter |-> g] :
        f \in {0, 8}, g \in BOOLEAN}

\* --------------------------------------------------------- gyro source
\* A quaternion is [w, i, j, k]; nalgebra's as_vector() is (i, j, k, w).
Quat(w, i, j, k) == [w |-> w, i |-> i, j |-> j, k |-> k]
QMul(p, q) ==
    Quat(p.w * q.w - p.i * q.i - p.j * q.j - p.k * q.k,
         p.w * q.i + p.i * q.w + p.j * q.k - p.k * q.j,
         p.w * q.j - p.i * q.k + p.j * q.w + p.k * q.i,
         p.w * q.k + p.i * q.j - p.j * q.i + p.k * q.w)

\* the literal list of guess_orient, one letter per position
possible_orientations == <<
    <<"Y","x","Z">>, <<"X","y","z">>, <<"X","Z","y">>, <<"Z","x","y">>,
    <<"z","y","X">>, <<"y","x","Z">>, <<"Z","X","Y">>, <<"z","Y","x">>,
    <<"Z","Y","X">>, <<"y","X","z">>, <<"Y","Z","X">>, <<"X","y","Z">>,
    <<"Y","z","x">>, <<"z","X","y">>, <<"Y","X","z">>, <<"x","y","z">>,
    <<"y","Z","x">>, <<"X","Y","Z">>, <<"z","x","y">>, <<"x","Y","z">>,
    <<"X","Y","z">>, <<"z","x","Y">>, <<"z","X","Y">>, <<"x","Z","y">>,
    <<"z","y","x">>, <<"x","y","Z">>, <<"Y","x","z">>, <<"x","z","y">>,
    <<"y","Z","X">>, <<"y","z","X">>, <<"Z","Y","x">>, <<"x","Y","Z">>,
    <<"z","Y","X">>, <<"Z","x","Y">>, <<"y","z","x">>, <<"x","Z","Y">>,
    <<"X","z","y">>, <<"X","z","Y">>, <<"Y","z","X">>, <<"Z","y","x">>,
    <<"X","Z","Y">>, <<"y","x","z">>, <<"x","z","Y">>, <<"Z","y","X">>,
    <<"Y","X","Z">>, <<"y","X","Z">>, <<"Y","Z","x">>, <<"Z","X","y">> >>

\* GyroSource::apply_transforms: the quaternion series is rebuilt from the
\* raw samples under imu_orientation, an axis permutation with a sign per
\* axis (lower case negates); no orientation leaves the axes as they are.
AxisOf(q, letter) ==
    CASE letter = "X" -> q.i  [] letter = "x" -> -q.i
      [] letter = "Y" -> q.j  [] letter = "y" -> -q.j
      [] letter = "Z" -> q.k  [] letter = "z" -> -q.k
apply_transforms(src) ==
    [src EXCEPT !.quaternions =
        IF src.imu_orientation = None THEN src.raw
        ELSE [n \in DOMAIN src.raw |->
                [ts |-> src.raw[n].ts,
                 q  |-> Quat(src.raw[n].q.w,
                             AxisOf(src.raw[n].q, src.imu_orientation[1]),
                             AxisOf(src.raw[n].q, src.imu_orientation[2]),
                             AxisOf(src.raw[n].q, src.imu_orientation[3]))]]]
RawSamples == << [ts |-> 1, q |-> Quat(1, 2, 3, 4)], [ts |-> 2, q |-> Quat(4, 3, 2, 1)] >>
GyroSources ==
    {apply_transforms([imu_orientation |-> o, raw |-> RawSamples, quaternions |-> <<>>]) :
        o \in {None, <<"X","Y","Z">>}}

\* ------------------------------------------------------------ set_quats
\* Quat64::from_scaled_axis((PI, 0, 0)): half angle PI/2, so w = cos = 0
\* and i = sin = 1 (the float's 6e-17 for cos is taken as 0).
rotation == Quat(0, 1, 0, 0)
\* the series set_quats hands to sync.set_gyro_quaternions: (w, -x, -y, -z)
\* of q * rotation, with the sample's timestamp
set_quats(source_quats) ==
    [n \in DOMAIN source_quats |->
        LET q == QMul(source_quats[n].q, rotation)
        IN  [ts |-> source_quats[n].ts, q |-> <<q.w, -q.i, -q.j, -q.k>>]]

\* ------------------------------------------------------- collect_points
\* the keys of the map, which are 1..k, in the order of iteration
KeysAscending(store) == [n \in 1..Cardinality(DOMAIN store) |-> n]
\* (the range read whatever its ends)
proper_range_unguarded(from_ts, to_ts) == TRUE
\* `if to_ts > from_ts`
proper_range(from_ts, to_ts) == to_ts > from_ts
\* BTreeMap::range panics when the start of the range is after its end
range_panics(from_ts, to_ts) == from_ts > to_ts
\* some range is read and the read panics
collect_points_panics(rs) ==
    \E n \in 1..Len(rs) :
        proper_range(rs[n][1], rs[n][2]) /\ range_panics(rs[n][1], rs[n][2])
collect_points(store, rs) ==
    [n \in 1..Len(rs) |->
        LET from_ts == rs[n][1]
            to_ts   == rs[n][2]
            inside(t) == from_ts <= t /\ t < to_ts /\ store[t] # NoFlow
            keys == SelectSeq(KeysAscending(store), inside)
        IN  IF proper_range(from_ts, to_ts)
            THEN [m \in 1..Len(keys) |-> store[keys[m]].optical_flow[1]]
            ELSE <<>>]

\* undistort_points_for_optical_flow maps every point of the list: the
\* result has the length of the input list
undistort_points_for_optical_flow(n_points, timestamp_us) == n_points

\* ---------------------------------------------------------------- state
VARIABLES
    \* shared with the rest of the application
    sync_results,         \* Arc<RwLock<BTreeMap<i64, FrameResult>>>
    gyro_source,          \* Arc<RwLock<GyroSource>> (params.gyro)
    store_readers,        \* read guards held on sync_results
    gyro_readers,         \* read guards held on gyro_source
    cancel_flag,          \* Arc<AtomicBool>
    \* the caller's position and the arguments of its call
    pc,
    calls,                \* full_sync / guess_orient calls made so far
    ranges,               \* the `ranges` argument of find_offsets / new
    entry_cancel,         \* cancel_flag as it was when find_offsets was entered
    panic_at,             \* where the run panicked, or None
    \* FindOffsetsRssync
    sync,                 \* SyncProblem: registered quaternions and tracks
    frame_readout_time,   \* seconds, a fraction
    sync_points,          \* Vec<(i64, i64)>
    sync_params,
    is_guess_orient,
    current_sync_point,
    current_orientation,
    num_sync_points,      \* captured by the on_progress closure
    win_src,              \* for each sync point, the index of its range
    \* full_sync
    offsets,              \* the Vec being built, then the value returned
    wi,                   \* index of the sync point being searched
    \* the optimizer's search in progress
    keep_going,           \* what the handler returned last
    reported,             \* the value this search last passed to progress_cb, or None
    \* guess_orient
    clone_source,
    oi,                   \* index of the orientation being evaluated
    total_cost,           \* the sum being built for it
    best,                 \* the accumulator of reduce, then the value returned
    \* what an observer of the candidates' costs has seen
    min_seen,             \* least total cost so far
    last_min,             \* index of the last candidate with that cost
    earlier_min,          \* a candidate before last_min has that cost too
    \* the `params` argument of new
    compute_params,
    \* what an observer of the optimizer session has seen
    searches,             \* the searches of the pass in progress: arguments,
                          \* registered series, value returned
    stopped,              \* a poll of the call in progress was answered `stop`
    evaluated,            \* labels of the candidates guess_orient has finished
    \* what an observer of the progress calls has seen
    progress_seen,        \* the progress the search in hand reported last, or None
    last_value            \* the value the call in hand passed last to progress_cb

shared == <<sync_results, gyro_source, store_readers, gyro_readers>>
caller == <<calls, ranges, entry_cancel, panic_at, compute_params>>
observer == <<searches, stopped, evaluated>>
polling == <<progress_seen, last_value>>
orchestrator == <<sync, frame_readout_time, sync_points, sync_params, is_guess_orient,
                  current_sync_point, current_orientation, num_sync_points, win_src>>
searching == <<keep_going, reported>>
guessing == <<clone_source, oi, total_cost, best, min_seen, last_min, earlier_min>>
vars == <<shared, cancel_flag, pc, caller, orchestrator, offsets, wi, searching, guessing,
          observer, polling>>

\* the state before any call: no orchestrator exists yet
InitWith(stores, gyros) ==
    /\ sync_results \in stores
    /\ gyro_source \in gyros
    /\ store_readers = 0
    /\ gyro_readers = 0
    /\ cancel_flag = FALSE
    /\ pc = "start"
    /\ calls = 0
    /\ ranges = <<>>
    /\ entry_cancel = FALSE
    /\ panic_at = None
    /\ sync = [quats |-> <<>>, tracks |-> <<>>]
    /\ frame_readout_time = Frac(0, 1)
    /\ sync_points = <<>>
    /\ sync_params = [initial_offset |-> 0, search_size |-> 0]
    /\ is_guess_orient = FALSE
    /\ current_sync_point = 0
    /\ current_orientation = 0
    /\ num_sync_points = 0
    /\ win_src = <<>>
    /\ offsets = <<>>
    /\ wi = 0
    /\ keep_going = TRUE
    /\ reported = None
    /\ clone_source = [imu_orientation |-> None, raw |-> <<>>, quaternions |-> <<>>]
    /\ oi = 0
    /\ total_cost = 0
    /\ best = None
    /\ min_seen = None
    /\ last_min = 0
    /\ earlier_min = FALSE
    /\ compute_params = [frame_readout_time |-> 0, scaled_fps |-> 0,
                         lens_global_shutter |-> FALSE]
    /\ searches = <<>>
    /\ stopped = FALSE
    /\ evaluated = <<>>
    /\ progress_seen = None
    /\ last_value = None

Init == InitWith(Stores, GyroSources)

\* another thread sets the cancel flag, at any moment
SetCancel ==
    /\ UNCHANGED polling
    /\ cancel_flag = FALSE
    /\ cancel_flag' = TRUE
    /\ UNCHANGED <<shared, pc, caller, orchestrator, offsets, wi, searching, guessing,
                   observer>>

\* --------------------------------------------------------- find_offsets
\* the Vec the function is built to return, whatever it is given
hardcoded_offsets == <<
    [ts |-> "3403.4",     offset |-> "49.07149195073893", cost |-> "2469.454571794784"],
    [ts |-> "10210.2",    offset |-> "49.02560488334704", cost |-> "1687.1520000469884"],
    [ts |-> "17000.3165", offset |-> "49.38418205303837", cost |-> "1856.5180621988166"],
    [ts |-> "23790.4335", offset |-> "50.2977951166321",  cost |-> "1681.702319836711"],
    [ts |-> "30597.2335", offset |-> "50.46544919417218", cost |-> "3068.1429766153424"] >>

find_offsets(rs) ==
    /\ UNCHANGED polling
    /\ pc = "start"
    /\ ranges' = rs
    /\ entry_cancel' = cancel_flag
    /\ offsets' = hardcoded_offsets
    /\ pc' = "fo_returned"
    /\ UNCHANGED <<shared, cancel_flag, calls, panic_at, compute_params, orchestrator, wi,
                   searching, guessing, observer>>

\* --------------------------------------------------- FindOffsetsRssync::new
\* (a configured value kept under a global shutter)
effective_readout_time_configured_wins(params) ==
    LET shutter == IF params.frame_readout_time # 0 THEN Frac(params.frame_readout_time, 1)
                   ELSE IF params.lens_global_shutter THEN Frac(1, 100)
                   ELSE Frac(1000, params.scaled_fps * 2)
    IN  FracDivInt(shutter, 1000)
effective_readout_time(params) ==
    LET configured == Frac(params.frame_readout_time, 1)
        derived    == IF params.frame_readout_time = 0
                      THEN Frac(1000, params.scaled_fps * 2)
                      ELSE configured
        shutter    == IF params.lens_global_shutter THEN Frac(1, 100) ELSE derived
    IN  FracDivInt(shutter, 1000)

\* SyncProblem::set_track_result: the correspondences of one frame pair are
\* kept under the key given
set_track_result(tracks, key, rec) ==
    [k \in (DOMAIN tracks) \cup {key} |-> IF k = key THEN rec ELSE tracks[k]]

\* (the assertion left out)
assert_same_len_removed(a, b) == TRUE
\* assert!(a.len() == b.len())
assert_same_len(a, b) == a = b

Min2(a, b) == IF a < b THEN a ELSE b

\* the loop over the frame pairs of one range, from pair n on
RECURSIVE track_pairs(_, _, _, _, _)
track_pairs(entries, n, from_ts, to_ts, tracks) ==
    IF n > Len(entries)
    THEN [panic |-> FALSE, a_t |-> 0, from_ts |-> from_ts, to_ts |-> to_ts, tracks |-> tracks]
    ELSE LET e    == entries[n]
             from == IF from_ts = -1 THEN e.a_t ELSE from_ts
             to   == e.b_t
             a    == undistort_points_for_optical_flow(e.a_n, from)
             b    == undistort_points_for_optical_flow(e.b_n, to)
         IN  IF ~assert_same_len(a, b)
             THEN [panic |-> TRUE, a_t |-> e.a_t, from_ts |-> from, to_ts |-> to,
                   tracks |-> tracks]
             ELSE track_pairs(entries, n + 1, from, to,
                      set_track_result(tracks, e.a_t,
                          [n_points |-> Min2(a, b),
                           undistort_a_at |-> from, undistort_b_at |-> to,
                           ts_a_frame |-> e.a_t, ts_b_frame |-> e.b_t]))

\* (a bound of 1 in place of 2)
not_enough_data_below_one(entries) == Len(entries) < 1
\* `range.len() < 2`: the range is skipped
not_enough_data(entries) == Len(entries) < 2

\* the loop over matched_points, from range n on
RECURSIVE build_sync_points(_, _, _)
build_sync_points(matched_points, n, acc) ==
    IF n > Len(matched_points) THEN acc
    ELSE IF not_enough_data(matched_points[n])
         THEN build_sync_points(matched_points, n + 1, acc)
         ELSE LET r == track_pairs(matched_points[n], 1, -1, 0, acc.tracks)
              IN  IF r.panic
                  THEN [acc EXCEPT !.panic = <<"new", n, r.a_t>>]
                  ELSE build_sync_points(matched_points, n + 1,
                           [acc EXCEPT !.tracks = r.tracks,
                                       !.sync_points = Append(@, <<r.from_ts, r.to_ts>>),
                                       !.win_src = Append(@, n)])

new(rs, sp, params) ==
    /\ UNCHANGED polling
    /\ pc = "start"
    /\ LET matched_points == collect_points(sync_results, rs)
           built == build_sync_points(matched_points, 1,
                        [panic |-> None, tracks |-> <<>>, sync_points |-> <<>>,
                         win_src |-> <<>>])
       IN  /\ ranges' = rs
           /\ compute_params' = params
           /\ IF collect_points_panics(rs)
              THEN /\ pc' = "panicked"
                   /\ panic_at' = <<"collect_points">>
                   /\ UNCHANGED orchestrator
              ELSE IF built.panic # None
              THEN /\ pc' = "panicked"
                   /\ panic_at' = built.panic
                   /\ UNCHANGED orchestrator
              ELSE /\ pc' = "idle"
                   /\ panic_at' = None
                   /\ sync' = [quats |-> <<>>, tracks |-> built.tracks]
                   /\ frame_readout_time' = effective_readout_time(params)
                   /\ sync_points' = built.sync_points
                   /\ sync_params' = sp
                   /\ is_guess_orient' = FALSE
                   /\ current_sync_point' = 0
                   /\ current_orientation' = 0
                   /\ num_sync_points' = Len(matched_points)
                   /\ win_src' = built.win_src
    /\ UNCHANGED <<shared, cancel_flag, calls, entry_cancel, offsets, wi, searching, guessing,
                   observer>>

\* ------------------------------------------------------------ optimizer
\* What SyncProblem::full_sync and ::pre_sync may return: None, or
\* Some((cost, offset)) with the offset in seconds.
CostVals == {0, 1}
OffsetsMs == {-11, 6, 7}
SearchResults == {None} \cup {Some(<<c, Frac(o, 1000)>>) : c \in CostVals, o \in OffsetsMs}
\* the progress a search reports to its handler
ProgressVals == {Frac(0, 1), Frac(1, 2), Frac(1, 1)}

\* a search of the optimizer is running: full_sync's or pre_sync's
in_search ==
    /\ pc \in {"fs_loop", "go_windows"}
    /\ wi <= Len(sync_points)

\* --------------------------------------------- the on_progress closure
num_orientations == IF is_guess_orient THEN NumOrientations ELSE 1
\* (cur_orientation + (cur_sync_point + progress) / num_sync_points) / num_orientations
progress_value(progress) ==
    LET inner == FracDivInt(Frac(current_sync_point * progress[2] + progress[1], progress[2]),
                            num_sync_points)
        outer == Frac(current_orientation * inner[2] + inner[1], inner[2])
    IN  FracDivInt(outer, num_orientations)
\* (the flag not consulted)
handler_result_ignores_flag == TRUE
\* !cancel_flag.load(Relaxed)
handler_result == ~cancel_flag

\* the handler is called with `progress`
handler_called(progress) ==
    /\ in_search
    /\ reported' = Some(progress_value(progress))
    /\ keep_going' = handler_result
    /\ stopped' = (stopped \/ ~handler_result)
    /\ progress_seen' = Some(progress)
    /\ UNCHANGED <<shared, cancel_flag, pc, caller, orchestrator, offsets, wi, guessing,
                   searches, evaluated>>

on_progress(progress) ==
    /\ handler_called(progress)
    /\ UNCHANGED last_value

\* the same call, with the caller's progress_cb keeping the value it is given
on_progress_watched(progress) ==
    /\ handler_called(progress)
    /\ last_value' = Some(progress_value(progress))

\* ------------------------------------------------------------ full_sync
\* lines 165-169: the mode flag, the empty Vec, the read guard on the source
full_sync_enter ==
    /\ pc = "idle"
    /\ calls < MaxCalls
    /\ calls' = calls + 1
    /\ is_guess_orient' = FALSE
    /\ offsets' = <<>>
    /\ gyro_readers' = gyro_readers + 1
    /\ pc' = "fs_locked"
    /\ last_value' = None
    /\ UNCHANGED progress_seen
    /\ searches' = <<>>
    /\ stopped' = FALSE
    /\ UNCHANGED <<sync_results, gyro_source, store_readers, cancel_flag, ranges, entry_cancel,
                   panic_at, compute_params, sync, frame_readout_time, sync_points,
                   sync_params, current_sync_point, current_orientation, num_sync_points,
                   win_src, wi, searching, guessing, evaluated>>

\* (the series left as the session holds it)
full_sync_keeps_quats ==
    /\ pc = "fs_locked"
    /\ gyro_readers' = gyro_readers - 1
    /\ wi' = 1
    /\ reported' = None
    /\ progress_seen' = None
    /\ UNCHANGED last_value
    /\ keep_going' = TRUE
    /\ pc' = "fs_loop"
    /\ UNCHANGED <<sync_results, gyro_source, store_readers, cancel_flag, caller,
                   orchestrator, offsets, guessing, observer>>
\* lines 170-171: set_quats under the guard, which is then dropped
full_sync_set_quats ==
    /\ pc = "fs_locked"
    /\ sync' = [sync EXCEPT !.quats = set_quats(gyro_source.quaternions)]
    /\ gyro_readers' = gyro_readers - 1
    /\ wi' = 1
    /\ reported' = None
    /\ progress_seen' = None
    /\ UNCHANGED last_value
    /\ keep_going' = TRUE
    /\ pc' = "fs_loop"
    /\ UNCHANGED <<sync_results, gyro_source, store_readers, cancel_flag, caller,
                   frame_readout_time, sync_points, sync_params, is_guess_orient,
                   current_sync_point, current_orientation, num_sync_points, win_src,
                   offsets, guessing, observer>>

\* the arguments of self.sync.full_sync(..) for one sync point, in seconds
full_sync_args(from_ts, to_ts) ==
    [initial_delay  |-> Frac(-sync_params.initial_offset, 1000),
     from_ts        |-> from_ts,
     to_ts          |-> to_ts,
     presync_step   |-> Frac(PresyncStep, 1000),
     presync_radius |-> Frac(sync_params.search_size, 1000),
     depth          |-> Some(RefineDepth)]

\* (the bound itself accepted)
within_search_range_inclusive(offset, initial_delay, presync_radius) ==
    FracLe(FracAbs(FracSub(offset, Frac(initial_delay, 1))), Frac(presync_radius * 9, 10))
\* `(offset - initial_delay).abs() < presync_radius * 0.9`
within_search_range(offset, initial_delay, presync_radius) ==
    FracLt(FracAbs(FracSub(offset, Frac(initial_delay, 1))), Frac(presync_radius * 9, 10))

\* (the start of the window in place of its centre)
offset_entry_window_start(from_ts, to_ts, offset, cost, n) ==
    [ts     |-> FracDivInt(Frac(from_ts, 1), 1000),
     offset |-> FracSub(FracNeg(offset), FracDivInt(FracMulInt(frame_readout_time, 1000), 2)),
     cost   |-> cost,
     window |-> n,
     internal_offset |-> offset]
\* the entry pushed for an accepted window: (ts, offset, cost); with it are
\* kept the index of the window and the offset before its conversion
offset_entry(from_ts, to_ts, offset, cost, n) ==
    [ts     |-> FracDivInt(FracDivInt(Frac(from_ts + to_ts, 1), 2), 1000),
     offset |-> FracSub(FracNeg(offset), FracDivInt(FracMulInt(frame_readout_time, 1000), 2)),
     cost   |-> cost,
     window |-> n,
     internal_offset |-> offset]

\* (no result taken as the result (0.0, 0.0))
window_entries_none_as_zero(delay, n) ==
    LET offset == IF delay = None THEN Frac(0, 1) ELSE FracMulInt(delay[1][2], 1000)
        cost   == IF delay = None THEN 0 ELSE delay[1][1]
    IN  IF within_search_range(offset, -sync_params.initial_offset, sync_params.search_size)
        THEN << offset_entry(sync_points[n][1], sync_points[n][2], offset, cost, n) >>
        ELSE << >>
\* lines 173-195: what one turn of the loop pushes for sync point n, whose
\* search returned `delay`
window_entries(delay, n) ==
    LET from_ts        == sync_points[n][1]
        to_ts          == sync_points[n][2]
        presync_radius == sync_params.search_size
        initial_delay  == -sync_params.initial_offset
    IN  IF delay = None THEN << >>
        ELSE LET offset == FracMulInt(delay[1][2], 1000)
             IN  IF within_search_range(offset, initial_delay, presync_radius)
                 THEN << offset_entry(from_ts, to_ts, offset, delay[1][1], n) >>
                 ELSE << >>

\* (pushed at the front)
push_front(vec, items) == items \o vec
\* Vec::push of the items, if any
push(vec, items) == vec \o items

\* lines 173-197, one turn of the loop: the search of sync point wi has
\* returned `delay`
full_sync_window(delay) ==
    /\ pc = "fs_loop"
    /\ wi <= Len(sync_points)
    /\ offsets' = push(offsets, window_entries(delay, wi))
    /\ searches' = Append(searches,
                      [args   |-> full_sync_args(sync_points[wi][1], sync_points[wi][2]),
                       quats  |-> sync.quats,
                       result |-> delay])
    /\ current_sync_point' = current_sync_point + 1
    /\ wi' = wi + 1
    /\ reported' = None
    /\ progress_seen' = None
    /\ UNCHANGED last_value
    /\ keep_going' = TRUE
    /\ UNCHANGED <<shared, cancel_flag, pc, caller, sync, frame_readout_time, sync_points,
                   sync_params, is_guess_orient, current_orientation, num_sync_points,
                   win_src, guessing, stopped, evaluated>>

\* lines 198-203: the log line indexes sync_points[0] and
\* sync_points[len - 1] when the info level is enabled, then the Vec is
\* returned
\* (the index out of bounds whatever the length)
log_line_panics_always(info_enabled) == info_enabled
log_line_panics(info_enabled) == info_enabled /\ Len(sync_points) = 0

full_sync_return(info_enabled) ==
    /\ UNCHANGED polling
    /\ pc = "fs_loop"
    /\ wi > Len(sync_points)
    /\ IF log_line_panics(info_enabled)
       THEN pc' = "panicked" /\ panic_at' = <<"full_sync">>
       ELSE pc' = "idle" /\ panic_at' = panic_at
    /\ UNCHANGED <<shared, cancel_flag, calls, ranges, entry_cancel, compute_params,
                   orchestrator, offsets, wi, searching, guessing, observer>>

\* --------------------------------------------------------- guess_orient
\* lines 207-216: the mode flag and the private clone of the source
guess_orient_enter ==
    /\ pc = "idle"
    /\ calls < MaxCalls
    /\ calls' = calls + 1
    /\ is_guess_orient' = TRUE
    /\ clone_source' = gyro_source
    /\ oi' = 1
    /\ best' = None
    /\ min_seen' = None
    /\ last_min' = 0
    /\ earlier_min' = FALSE
    /\ pc' = "go_next"
    /\ last_value' = None
    /\ UNCHANGED progress_seen
    /\ searches' = <<>>
    /\ stopped' = FALSE
    /\ evaluated' = <<>>
    /\ UNCHANGED <<shared, cancel_flag, ranges, entry_cancel, panic_at, compute_params, sync,
                   frame_readout_time, sync_points, sync_params, current_sync_point,
                   current_orientation, num_sync_points, win_src, offsets, wi, searching,
                   total_cost>>

\* (the label set on the shared source instead of the clone)
guess_orient_candidate_on_shared ==
    /\ pc = "go_next"
    /\ oi <= Len(possible_orientations)
    /\ LET relabelled == [gyro_source EXCEPT !.imu_orientation = possible_orientations[oi]]
       IN  /\ gyro_source' = apply_transforms(relabelled)
           /\ sync' = [sync EXCEPT !.quats = set_quats(gyro_source'.quaternions)]
    /\ total_cost' = 0
    /\ wi' = 1
    /\ reported' = None
    /\ progress_seen' = None
    /\ UNCHANGED last_value
    /\ keep_going' = TRUE
    /\ pc' = "go_windows"
    /\ UNCHANGED <<sync_results, store_readers, gyro_readers, cancel_flag, caller,
                   frame_readout_time, sync_points, sync_params,
                   is_guess_orient, current_sync_point, current_orientation,
                   num_sync_points, win_src, offsets, clone_source, oi, best, min_seen,
                   last_min, earlier_min, observer>>

\* (the series registered before the transforms are reapplied)
guess_orient_candidate_stale_quats ==
    /\ pc = "go_next"
    /\ oi <= Len(possible_orientations)
    /\ LET relabelled == [clone_source EXCEPT !.imu_orientation = possible_orientations[oi]]
       IN  /\ clone_source' = apply_transforms(relabelled)
           /\ sync' = [sync EXCEPT !.quats = set_quats(clone_source.quaternions)]
    /\ total_cost' = 0
    /\ wi' = 1
    /\ reported' = None
    /\ progress_seen' = None
    /\ UNCHANGED last_value
    /\ keep_going' = TRUE
    /\ pc' = "go_windows"
    /\ UNCHANGED <<shared, cancel_flag, caller, frame_readout_time, sync_points, sync_params,
                   is_guess_orient, current_sync_point, current_orientation,
                   num_sync_points, win_src, offsets, oi, best, min_seen,
                   last_min, earlier_min, observer>>
\* lines 219-222: the candidate's label, the transforms, the quaternions
guess_orient_candidate ==
    /\ pc = "go_next"
    /\ oi <= Len(possible_orientations)
    /\ LET relabelled == [clone_source EXCEPT !.imu_orientation = possible_orientations[oi]]
       IN  /\ clone_source' = apply_transforms(relabelled)
           /\ sync' = [sync EXCEPT !.quats = set_quats(clone_source'.quaternions)]
    /\ total_cost' = 0
    /\ wi' = 1
    /\ reported' = None
    /\ progress_seen' = None
    /\ UNCHANGED last_value
    /\ keep_going' = TRUE
    /\ pc' = "go_windows"
    /\ UNCHANGED <<shared, cancel_flag, caller, frame_readout_time, sync_points, sync_params,
                   is_guess_orient, current_sync_point, current_orientation,
                   num_sync_points, win_src, offsets, oi, best, min_seen,
                   last_min, earlier_min, observer>>

\* the arguments of self.sync.pre_sync(..) for one sync point, in seconds
pre_sync_args(from_ts, to_ts) ==
    [initial_delay  |-> Frac(-sync_params.initial_offset, 1000),
     from_ts        |-> from_ts,
     to_ts          |-> to_ts,
     presync_step   |-> Frac(GuessStep, 1000),
     presync_radius |-> Frac(sync_params.search_size, 1000),
     depth          |-> None]

\* (a missing estimate counted as cost 1)
window_cost_missing_is_one(estimate) == IF estimate = None THEN 1 ELSE estimate[1][1]
\* `.unwrap_or((0.0,0.0))` then `.0`
window_cost(estimate) == IF estimate = None THEN 0 ELSE estimate[1][1]

\* lines 224-232, one window: pre_sync has returned `estimate`
guess_orient_window(estimate) ==
    /\ pc = "go_windows"
    /\ wi <= Len(sync_points)
    /\ total_cost' = total_cost + window_cost(estimate)
    /\ searches' = Append(searches,
                      [args   |-> pre_sync_args(sync_points[wi][1], sync_points[wi][2]),
                       quats  |-> sync.quats,
                       result |-> estimate])
    /\ wi' = wi + 1
    /\ reported' = None
    /\ progress_seen' = None
    /\ UNCHANGED last_value
    /\ keep_going' = TRUE
    /\ UNCHANGED <<shared, cancel_flag, pc, caller, orchestrator, offsets,
                   clone_source, oi, best, min_seen, last_min, earlier_min, stopped,
                   evaluated>>

\* The observer of the candidates' costs: candidate n has cost c.
observe_cost(n, c) ==
    IF min_seen = None \/ c < min_seen[1]
    THEN min_seen' = Some(c) /\ last_min' = n /\ earlier_min' = FALSE
    ELSE IF c = min_seen[1]
         THEN min_seen' = min_seen /\ last_min' = n /\ earlier_min' = TRUE
         ELSE UNCHANGED <<min_seen, last_min, earlier_min>>

\* (the greater kept)
reduce_step_keeps_greater(a, b) == IF a[2] > b[2] THEN a ELSE b
\* (the accumulator kept on a tie)
reduce_step_keeps_first(a, b) == IF a[2] <= b[2] THEN a ELSE b
\* the closure of reduce: `if a.1 < b.1 { a } else { b }`
reduce_step(a, b) == IF a[2] < b[2] THEN a ELSE b

\* lines 234-237: the candidate is counted and folded into the result
guess_orient_fold ==
    /\ UNCHANGED polling
    /\ pc = "go_windows"
    /\ wi > Len(sync_points)
    /\ current_orientation' = current_orientation + 1
    /\ LET item == <<possible_orientations[oi], total_cost>>
       IN  best' = IF best = None THEN item ELSE reduce_step(best, item)
    /\ observe_cost(oi, total_cost)
    /\ oi' = oi + 1
    /\ evaluated' = Append(evaluated, clone_source.imu_orientation)
    /\ searches' = <<>>
    /\ pc' = "go_next"
    /\ UNCHANGED <<shared, cancel_flag, caller, sync, frame_readout_time, sync_points,
                   sync_params, is_guess_orient, current_sync_point, num_sync_points,
                   win_src, offsets, wi, searching, clone_source, total_cost, stopped>>

\* the iterator is exhausted: reduce's Option is returned
guess_orient_return ==
    /\ UNCHANGED polling
    /\ pc = "go_next"
    /\ oi > Len(possible_orientations)
    /\ pc' = "idle"
    /\ UNCHANGED <<shared, cancel_flag, caller, orchestrator, offsets, wi, searching,
                   guessing, observer>>

\* ------------------------------------------------------- specifications
construct(range_lists, params_set) ==
    \/ \E rs \in range_lists : find_offsets(rs)
    \/ \E rs \in range_lists, sp \in SyncParamsSet, params \in params_set :
           new(rs, sp, params)

run_full_sync(results) ==
    \/ full_sync_enter
    \/ full_sync_set_quats
    \/ \E delay \in results : full_sync_window(delay)
    \/ \E info_enabled \in BOOLEAN : full_sync_return(info_enabled)

run_guess_orient(estimates) ==
    \/ guess_orient_enter
    \/ guess_orient_candidate
    \/ \E estimate \in estimates : guess_orient_window(estimate)
    \/ guess_orient_fold
    \/ guess_orient_return

poll == \E progress \in ProgressVals : on_progress(progress)
watched_poll == \E progress \in ProgressVals : on_progress_watched(progress)

\* rolling shutter, readout time derived from the frame rate
OrientParamsSet == {p \in ComputeParamsSet : p.frame_readout_time = 0 /\ ~p.lens_global_shutter}

\* find_offsets, new and full_sync over every store and list of ranges, with
\* every value the full search may return; the flag may be set at any moment
Next ==
    \/ SetCancel
    \/ construct(RangeSeqs, OrientParamsSet)
    \/ run_full_sync(SearchResults)

Spec == Init /\ [][Next]_vars

\* find_offsets and new alone, over every store, with lists of ranges that
\* may hold a range whose end is before its start, and with more values of
\* the configured readout time and of the frame rate
NewRangeSeqs == SeqsUpTo(RangeSet \cup {<<2, 1>>}, MaxRanges)
NewParamsSet ==
    {[frame_readout_time |-> f, scaled_fps |-> r, lens_global_shutter |-> g] :
        f \in {0, 8, 16}, r \in {25, 30}, g \in BOOLEAN}
NextNew == construct(NewRangeSeqs, NewParamsSet)

SpecNew == Init /\ [][NextNew]_vars

\* The two specifications below start from one store, with flow of equal
\* lengths in every frame, and lists of ranges that hold the whole
\* recording some number of times and then the degenerate range some number
\* of times.
OrientStores == {MkStore([t \in FrameTs |-> "equal"])}
OrientRangeSeqs ==
    {rs \in RangeSeqs :
        /\ \A n \in 1..Len(rs) : rs[n][1] = 1
        /\ \A n \in 1..Len(rs) - 1 : rs[n][2] >= rs[n + 1][2]}
InitOrient == InitWith(OrientStores, GyroSources)

\* guess_orient alone, with every cost the quick estimate may return (of the
\* estimate's offset, which the code drops, one value); the optimizer makes
\* no progress call and nobody cancels
EstimateResults == {None} \cup {Some(<<c, Frac(6, 1000)>>) : c \in CostVals}
NextGuess ==
    \/ construct(OrientRangeSeqs, OrientParamsSet)
    \/ run_guess_orient(EstimateResults)

\* the source has no orientation set
InitGuess == InitWith(OrientStores, {g \in GyroSources : g.imu_orientation = None})
SpecGuess == InitGuess /\ [][NextGuess]_vars

\* full_sync and guess_orient in any order, with progress calls and
\* cancellation; the quick estimate fails or returns cost 0, the full search
\* fails or returns one of two offsets
ZeroCostEstimates == {None, Some(<<0, Frac(0, 1000)>>)}
\* no result, an offset within the accepted range, one outside it
OrientSearchResults == {None, Some(<<1, Frac(6, 1000)>>), Some(<<1, Frac(7, 1000)>>)}
NextOrient ==
    \/ SetCancel
    \/ construct(OrientRangeSeqs, OrientParamsSet)
    \/ run_full_sync(OrientSearchResults)
    \/ run_guess_orient(ZeroCostEstimates)
    \/ poll

SpecOrient == InitOrient /\ [][NextOrient]_vars

\* find_offsets, new and full_sync on the long recording, with lists of
\* ranges made of its first half, its second half and the degenerate range,
\* in any order
HalfRanges == {<<1, MaxFrames + 1>>, <<MaxFrames + 1, 2 * MaxFrames + 1>>, <<1, 1>>}
HalfRangeSeqs == SeqsUpTo(HalfRanges, MaxRanges)
InitHalves == InitWith({LongStore}, GyroSources)
NextHalves ==
    \/ construct(HalfRangeSeqs, OrientParamsSet)
    \/ run_full_sync(SearchResults)

SpecHalves == InitHalves /\ [][NextHalves]_vars

\* full_sync and guess_orient in any order with progress calls whose values
\* the caller keeps; every search returns the same result and nobody cancels
OneResult == {Some(<<0, Frac(6, 1000)>>)}
NextProgress ==
    \/ construct(OrientRangeSeqs, OrientParamsSet)
    \/ run_full_sync(OneResult)
    \/ run_guess_orient(OneResult)
    \/ watched_poll

SpecProgress == InitGuess /\ [][NextProgress]_vars

\* ================================================================ claims
matched == collect_points(sync_results, ranges)
\* the ranges for which at least 2 matched entries were collected
usable_ranges == {n \in 1..Len(ranges) : Len(matched[n]) >= 2}
\* an orchestrator has been constructed
constructed ==
    \/ pc \in {"idle", "fs_locked", "fs_loop", "go_next", "go_windows"}
    \/ pc = "panicked" /\ panic_at = <<"full_sync">>
\* the call made last on the orchestrator has returned
full_sync_returned == pc = "idle" /\ calls > 0 /\ ~is_guess_orient
guess_orient_returned == pc = "idle" /\ calls > 0 /\ is_guess_orient

\* C1: when the cancel flag is already set as find_offsets is entered, the
\* list find_offsets returns is empty.
C1_CancelledFindOffsetsIsEmpty ==
    (pc = "fo_returned" /\ entry_cancel) => offsets = <<>>

\* C2: when no range has 2 or more matched entries (an empty list of ranges
\* included), the run -- find_offsets, or new followed by full_sync -- ends
\* without a panic and with an empty result list.
C2_NoUsableDataGivesEmptyResult ==
    (pc # "start" /\ usable_ranges = {}) => (pc # "panicked" /\ offsets = <<>>)

\* C3: the list find_offsets returns holds at most one entry per range with
\* 2 or more matched entries, and none for any other range.
C3_FindOffsetsResultComesFromRanges ==
    pc = "fo_returned" => Len(offsets) <= Cardinality(usable_ranges)

\* C4: a range with fewer than 2 matched entries is skipped by new: no sync
\* window comes from it, only the frame pairs of the other ranges are
\* registered with the optimizer, and no entry of full_sync's result comes
\* from it; every other range has its sync window.
C4_ShortRangeIsSkipped ==
    constructed =>
        /\ \A w \in 1..Len(win_src) : win_src[w] \in usable_ranges
        /\ \A n \in usable_ranges : \E w \in 1..Len(win_src) : win_src[w] = n
        /\ Len(sync_points) = Cardinality(usable_ranges)
        /\ DOMAIN sync.tracks =
               {t \in FrameTs : \E n \in usable_ranges : \E k \in 1..Len(matched[n]) :
                                    matched[n][k].a_t = t}
        /\ \A e \in 1..Len(offsets) : win_src[offsets[e].window] \in usable_ranges
C4_Witness ==
    /\ full_sync_returned
    /\ \E n \in 1..Len(ranges) : Len(matched[n]) = 1
    /\ usable_ranges # {}
    /\ Len(offsets) = 1

\* C5: every entry of full_sync's result comes from an optimizer offset (ms,
\* before the sign conversion) whose distance from -initial_offset is
\* strictly less than 0.9 * search_size.
C5_AcceptedOffsetsAreInsideRange ==
    constructed =>
        \A e \in 1..Len(offsets) :
            LET d == FracSub(offsets[e].internal_offset, Frac(-sync_params.initial_offset, 1))
            IN  10 * Abs(d[1]) < 9 * sync_params.search_size * d[2]
\* one window was accepted and another was not
C5_Witness ==
    /\ full_sync_returned
    /\ Len(sync_points) = 2
    /\ Len(offsets) = 1

\* C6: when a frame pair of a range with 2 or more matched entries has point
\* lists of different lengths, new panics at the first such pair: no sync
\* window is recorded and no result is produced.
mismatched(n) == {k \in 1..Len(matched[n]) : matched[n][k].a_n # matched[n][k].b_n}
broken_ranges == {n \in usable_ranges : mismatched(n) # {}}
SetMin(S) == CHOOSE x \in S : \A y \in S : x <= y
C6_MismatchedPairAborts ==
    (pc \notin {"start", "fo_returned"} /\ broken_ranges # {}) =>
        LET n == SetMin(broken_ranges)
            k == SetMin(mismatched(n))
        IN  /\ pc = "panicked"
            /\ panic_at = <<"new", n, matched[n][k].a_t>>
            /\ sync_points = <<>>
            /\ sync.tracks = <<>>
            /\ offsets = <<>>
C6_Witness ==
    /\ pc = "panicked"
    /\ Len(panic_at) = 3
    /\ panic_at[2] = 2

\* C7: guess_orient returns Some((s, c)): s is one of the 48 candidates, the
\* literal list being every signed axis permutation exactly once (6 axis
\* orders, 8 combinations of case), and c is less than or equal to the total
\* cost of every candidate.
AxisIndex(letter) ==
    CASE letter \in {"X", "x"} -> 1
      [] letter \in {"Y", "y"} -> 2
      [] letter \in {"Z", "z"} -> 3
AxisLetters == {"X", "x", "Y", "y", "Z", "z"}
SignedPermutations ==
    {o \in AxisLetters \X AxisLetters \X AxisLetters :
        {AxisIndex(o[1]), AxisIndex(o[2]), AxisIndex(o[3])} = {1, 2, 3}}
Candidates == {possible_orientations[n] : n \in 1..Len(possible_orientations)}
\* the list holds 48 strings, no string twice, every signed permutation
list_is_complete ==
    /\ Len(possible_orientations) = NumOrientations
    /\ Cardinality(Candidates) = NumOrientations
    /\ Candidates = SignedPermutations
C7_GuessReturnsCheapestCandidate ==
    /\ list_is_complete
    /\ guess_orient_returned =>
           /\ best # None
           /\ best[1] \in Candidates
           /\ best[2] <= min_seen[1]
\* the one cheapest candidate is neither the first nor the last of the list
C7_Witness ==
    /\ guess_orient_returned
    /\ ~earlier_min
    /\ last_min \notin {1, NumOrientations}
    /\ best[2] = 0

\* C8, as claimed: when several candidates share the minimum total cost,
\* guess_orient returns the first-seen of them, so not the last-seen one.
C8_TieReturnsFirstSeen ==
    (guess_orient_returned /\ earlier_min) => best[1] # possible_orientations[last_min]
\* C8, amended: guess_orient returns the last-seen candidate among those
\* with the minimum total cost (the only one when there is no tie).
C8_TieReturnsLastSeen ==
    guess_orient_returned => best = <<possible_orientations[last_min], min_seen[1]>>
\* two or more candidates share the minimum, the last of them before the end
C8_Witness ==
    /\ guess_orient_returned
    /\ earlier_min
    /\ last_min < NumOrientations

\* C9: every value passed to the caller's progress callback lies in [0, 1].
C9_ProgressWithinUnitInterval ==
    reported # None => (FracLe(Frac(0, 1), reported[1]) /\ FracLe(reported[1], Frac(1, 1)))

\* C10: no step of new, full_sync or guess_orient changes the shared gyro
\* source or the shared frame-result store, and no read guard on either is
\* held once an operation has returned; guess_orient relabels its clone.
C10_SharedStateUntouched ==
    [][/\ gyro_source' = gyro_source
       /\ sync_results' = sync_results
       /\ pc' \in {"idle", "panicked", "fo_returned"} =>
              (gyro_readers' = 0 /\ store_readers' = 0)]_vars
\* guess_orient has returned, its clone relabelled and the source as it was
C10_Witness ==
    /\ guess_orient_returned
    /\ clone_source.imu_orientation = possible_orientations[NumOrientations]
    /\ clone_source.quaternions # gyro_source.quaternions
    /\ gyro_source.imu_orientation # clone_source.imu_orientation
    /\ gyro_readers = 0

\* the last call made on the orchestrator is full_sync, running or returned
in_full_sync == ~is_guess_orient /\ (pc = "fs_loop" \/ full_sync_returned)
\* a search result whose offset passes the acceptance test of full_sync
accepted(r) ==
    /\ r # None
    /\ LET d == FracSub(FracMulInt(r[1][2], 1000), Frac(-sync_params.initial_offset, 1))
       IN  10 * Abs(d[1]) < 9 * sync_params.search_size * d[2]
entries_of(w) == {e \in 1..Len(offsets) : offsets[e].window = w}

\* C11: every call of the handler registered with the optimizer answers
\* `continue` exactly when the cancel flag is not set at that moment; so with
\* the flag set, every poll, in full_sync or in guess_orient, answers `stop`.
C11_HandlerAnswersFromFlag ==
    [][(searching' # searching /\ reported' # None) => (keep_going' = ~cancel_flag)]_vars
\* a poll made by a quick estimate of guess_orient was answered `stop`
C11_Witness ==
    /\ pc = "go_windows"
    /\ cancel_flag
    /\ stopped
    /\ reported # None
    /\ ~keep_going

\* C12: in full_sync a window whose search returns None adds no entry and
\* raises no error; every window is searched all the same, and every window
\* whose search returns an accepted result has its entry.
C12_NoResultWindowIsSkipped ==
    /\ in_full_sync =>
           /\ \A w \in 1..Len(searches) :
                  /\ searches[w].result = None => entries_of(w) = {}
                  /\ accepted(searches[w].result) =>
                         \E e \in entries_of(w) : offsets[e].cost = searches[w].result[1][1]
           /\ Len(searches) = wi - 1
           /\ full_sync_returned => Len(searches) = Len(sync_points)
    /\ (pc = "panicked" /\ panic_at = <<"full_sync">>) => searches = <<>>
\* the first window had no result, the second was accepted
C12_Witness ==
    /\ full_sync_returned
    /\ Len(searches) = 2
    /\ searches[1].result = None
    /\ Len(offsets) = 1
    /\ offsets[1].window = 2

C14_EffectiveReadoutTime ==
    pc = "idle" =>
        LET p == compute_params
        IN  frame_readout_time =
                IF p.lens_global_shutter THEN Frac(1, 100000)
                ELSE IF p.frame_readout_time # 0 THEN Frac(p.frame_readout_time, 1000)
                ELSE Frac(500, p.scaled_fps * 1000)
\* a global shutter with a readout time configured
C14_Witness ==
    /\ pc = "idle"
    /\ compute_params.lens_global_shutter
    /\ compute_params.frame_readout_time = 8
    /\ frame_readout_time = Frac(1, 100000)

\* C15: the result of full_sync holds exactly one entry for every window
\* whose search was accepted and none for any other, in the order of the
\* windows; the windows are searched in the order of sync_points, which is
\* the order of the ranges given; so when the ranges are disjoint and
\* increasing in time the centres of the entries do not decrease.
ranges_increasing == \A n \in 1..Len(ranges) - 1 : ranges[n][2] <= ranges[n + 1][1]
C15_EntriesFollowWindowOrder ==
    in_full_sync =>
        /\ \A e \in 1..Len(offsets) - 1 : offsets[e].window < offsets[e + 1].window
        /\ \A w \in 1..Len(searches) :
               /\ Cardinality(entries_of(w)) = IF accepted(searches[w].result) THEN 1 ELSE 0
               /\ searches[w].args.from_ts = sync_points[w][1]
               /\ searches[w].args.to_ts = sync_points[w][2]
        /\ \A e \in 1..Len(offsets) : offsets[e].window \in 1..Len(searches)
        /\ \A w \in 1..Len(win_src) - 1 : win_src[w] < win_src[w + 1]
        /\ ranges_increasing =>
               \A e \in 1..Len(offsets) - 1 : FracLe(offsets[e].ts, offsets[e + 1].ts)
\* the two halves in time order, both accepted
C15_Witness ==
    /\ full_sync_returned
    /\ Len(ranges) = 2
    /\ ranges[1][2] = ranges[2][1]
    /\ Len(offsets) = 2
    /\ FracLt(offsets[1].ts, offsets[2].ts)

\* C16: the total cost of a candidate is the sum, over the sync windows, of
\* the cost its quick estimate returned, a missing estimate counting for 0;
\* a missing estimate makes guess_orient neither fail nor leave a candidate
\* out.
RECURSIVE SumOfCosts(_, _)
SumOfCosts(seen, n) ==
    IF n = 0 THEN 0
    ELSE SumOfCosts(seen, n - 1)
             + (IF seen[n].result = None THEN 0 ELSE seen[n].result[1][1])
C16_TotalCostIsSumOfEstimates ==
    /\ pc = "go_windows" =>
           /\ Len(searches) = wi - 1
           /\ total_cost = SumOfCosts(searches, Len(searches))
           /\ Len(evaluated) = oi - 1
    /\ is_guess_orient => pc # "panicked"
    /\ guess_orient_returned => Len(evaluated) = NumOrientations
\* the last candidate: its first estimate missing, its second of cost 1
C16_Witness ==
    /\ pc = "go_windows"
    /\ oi = NumOrientations
    /\ wi > Len(sync_points)
    /\ Len(searches) = 2
    /\ searches[1].result = None
    /\ searches[2].result # None
    /\ total_cost = 1

\* C17: collect_points gives one list per range, in the order of the ranges;
\* for a range whose end is not after its start the list is empty and
\* nothing panics; for any other range the list holds only the flow of
\* frames with from_ts <= timestamp < to_ts that have flow under the key.
C17_OneListPerRange ==
    pc \in {"idle", "panicked"} =>
        /\ panic_at # <<"collect_points">>
        /\ Len(matched) = Len(ranges)
        /\ pc = "idle" => num_sync_points = Len(ranges)
        /\ \A n \in 1..Len(ranges) :
               IF ranges[n][2] <= ranges[n][1]
               THEN matched[n] = <<>>
               ELSE \A k \in 1..Len(matched[n]) :
                        LET t == matched[n][k].a_t
                        IN  /\ ranges[n][1] <= t
                            /\ t < ranges[n][2]
                            /\ sync_results[t].optical_flow = Some(matched[n][k])
\* a range that ends before it starts, then one with the flow of two frames
C17_Witness ==
    /\ pc = "idle"
    /\ Len(ranges) = 2
    /\ ranges[1] = <<2, 1>>
    /\ Len(matched[2]) = 2

\* C18: with the cancel flag set, before or while full_sync runs over one
\* window or more, full_sync does not panic, and its result, as far as it is
\* built, holds only entries of windows whose search returned an accepted
\* result.
C18_CancelledFullSyncReturnsPartialResult ==
    cancel_flag =>
        /\ (pc = "panicked" /\ panic_at = <<"full_sync">>) => Len(sync_points) = 0
        /\ in_full_sync =>
               \A e \in 1..Len(offsets) :
                   /\ offsets[e].window \in 1..Len(searches)
                   /\ accepted(searches[offsets[e].window].result)
\* full_sync has returned one entry for two windows, a poll of the call
\* having been answered `stop`
C18_Witness ==
    /\ full_sync_returned
    /\ cancel_flag
    /\ stopped
    /\ Len(searches) = 2
    /\ Len(offsets) = 1

\* the series a source with the raw samples of the shared source and the
\* given label hands to the optimizer
series_of(label) ==
    set_quats(apply_transforms([imu_orientation |-> label, raw |-> gyro_source.raw,
                                quaternions |-> <<>>]).quaternions)

\* C19: guess_orient evaluates the 48 candidates once each, in the order of
\* the list; while a candidate's estimates run the clone carries its label
\* and the optimizer holds the series rebuilt under that label, and so did
\* it at each of the candidate's estimates; every estimate is asked with
\* -initial_offset, a 3 ms step and search_size, all in seconds, as full_sync
\* asks its searches, and with no refinement.
C19_CandidatesInOrderOnFreshSeries ==
    /\ PresyncStep = GuessStep
    /\ (is_guess_orient /\ pc \in {"go_next", "go_windows", "idle"}) =>
           /\ Len(evaluated) <= NumOrientations
           /\ evaluated = SubSeq(possible_orientations, 1, Len(evaluated))
    /\ guess_orient_returned => evaluated = possible_orientations
    /\ pc = "go_windows" =>
           LET label == possible_orientations[Len(evaluated) + 1]
           IN  /\ clone_source.imu_orientation = label
               /\ sync.quats = series_of(label)
               /\ \A w \in 1..Len(searches) :
                      /\ searches[w].quats = series_of(label)
                      /\ searches[w].args =
                             [initial_delay  |-> Frac(-sync_params.initial_offset, 1000),
                              from_ts        |-> sync_points[w][1],
                              to_ts          |-> sync_points[w][2],
                              presync_step   |-> Frac(3, 1000),
                              presync_radius |-> Frac(sync_params.search_size, 1000),
                              depth          |-> None]
                      /\ [searches[w].args EXCEPT !.depth = Some(RefineDepth)]
                             = full_sync_args(sync_points[w][1], sync_points[w][2])
\* the estimates of the last candidate are made, over two windows
C19_Witness ==
    /\ pc = "go_windows"
    /\ Len(evaluated) = NumOrientations - 1
    /\ Len(searches) = 2
    /\ wi > Len(sync_points)
    /\ sync.quats # series_of(possible_orientations[NumOrientations - 1])

\* C20: every search of full_sync runs with the series adapted from the
\* shared source's quaternions registered, also after guess_orient has left
\* the series of its last candidate in the session.
C20_FullSyncSearchesOnSourceSeries ==
    in_full_sync =>
        /\ sync.quats = set_quats(gyro_source.quaternions)
        /\ \A w \in 1..Len(searches) :
               searches[w].quats = set_quats(gyro_source.quaternions)
\* full_sync has returned, after a guess_orient whose last candidate's
\* series is not that of the source
C20_Witness ==
    /\ full_sync_returned
    /\ evaluated = possible_orientations
    /\ Len(searches) = 2
    /\ series_of(possible_orientations[NumOrientations]) # set_quats(gyro_source.quaternions)

\* C21: in the first call made on an orchestrator, full_sync or
\* guess_orient, a value passed to progress_cb is never less than the value
\* passed before it in that call, at every progress call whose progress is
\* not less than the progress the same search reported before.
C21_ProgressNeverDecreases ==
    [][(/\ calls = 1
        /\ searching' # searching
        /\ reported' # None
        /\ (progress_seen = None \/ FracLe(progress_seen[1], progress_seen'[1])))
       => (last_value = None \/ FracLe(last_value[1], last_value'[1]))]_vars

\* C22: for every frame pair (a_t, b_t) of a range that new processes, the
\* points of the from-frame are undistorted at a_t and those of the to-frame
\* at b_t, the pair is registered under the key a_t, and the sync window of
\* the range is (a_t of its first pair, b_t of its last pair).
C22_PairsUndistortedAtOwnTimestamps ==
    pc = "idle" =>
        /\ \A n \in usable_ranges : \A k \in 1..Len(matched[n]) :
               LET e == matched[n][k]
               IN  /\ e.a_t \in DOMAIN sync.tracks
                   /\ sync.tracks[e.a_t].ts_a_frame = e.a_t
                   /\ sync.tracks[e.a_t].ts_b_frame = e.b_t
                   /\ sync.tracks[e.a_t].undistort_a_at = e.a_t
                   /\ sync.tracks[e.a_t].undistort_b_at = e.b_t
        /\ \A w \in 1..Len(sync_points) :
               LET r == matched[win_src[w]]
               IN  sync_points[w] = <<r[1].a_t, r[Len(r)].b_t>>

====
